---- MODULE Spec2Model ----
(***************************************************************************)
(* A model of the waybar-timer service (src/src/main.rs): the Timer state  *)
(* machine, its World operations, Timer::update (expiry + rendering),      *)
(* ServerState::update (broadcast) and the three threads of run_serve that *)
(* share one mutex: the interval thread, the subscriber acceptor and the   *)
(* command loop of the main thread.                                        *)
(*                                                                         *)
(* Time is an integer number of milliseconds.  OffsetDateTime::now_local   *)
(* is the variable `now`; every operation reads it at most once, and it    *)
(* never goes back.  The clock advances in steps of Deltas; the interval   *)
(* thread may be late by any amount (scheduling, a suspended machine), so  *)
(* a request can find a Running timer whose expiry has passed.             *)
(* Desktop notifications (send_notification) change no state of the        *)
(* service and are left out; the completion command run by Timer::update   *)
(* is recorded in `executed`.  A thread that holds the mutex is the only   *)
(* one that touches timer and subs.                                        *)
(***************************************************************************)
EXTENDS Integers, Sequences, FiniteSets, TLC

(* ---------------------------- time units ------------------------------ *)
Millisecond == 1
Second == 1000 * Millisecond
Minute == 60 * Second
INTERVAL == 1 * Second

(* ------------------------------ bounds -------------------------------- *)
\* the clock never passes MaxMinutes minutes
MaxMinutes == 10
\* no timer is started once cycles has reached MaxCycles
MaxCycles == 8
\* at most MaxSubs subscribers ever connect
MaxSubs == 2
\* increase() is not called when it would move the time left beyond
\* MaxSpanMinutes minutes in either direction
MaxSpanMinutes == 30

\* the amounts by which the clock advances in one step
Deltas == {5 * Minute}
\* the completion commands a client may give
Commands == {"notify"}
\* the seconds a client passes to increase (Increase / Decrease of the CLI)
IncSeconds == {300, -300, -1800}

(* --------------------------- Option<String> --------------------------- *)
None == <<>>
Some(c) == <<c>>
OptCommands == {None} \cup {Some(c) : c \in Commands}

(* ------------------------------ TimerKind ----------------------------- *)
Idle == [tag |-> "Idle"]
Running(expiry, command) ==
    [tag |-> "Running", expiry |-> expiry, command |-> command]
Paused(time_left, command) ==
    [tag |-> "Paused", time_left |-> time_left, command |-> command]

Timer(cycles, kind) == [cycles |-> cycles, kind |-> kind]

(* ----------------------------- WorldError ----------------------------- *)
Ok == "Ok"
NoTimerExisting == "NoTimerExisting"
TimerAlreadyExisting == "TimerAlreadyExisting"

(* ------------------------- Timer::update ------------------------------ *)
\* Duration::whole_minutes: the whole seconds divided by 60, truncated
\* toward zero
whole_minutes(d) ==
    IF d >= 0 THEN d \div Minute ELSE -((-d) \div Minute)

\* mutant of expired: a timer whose expiry is exactly now is not yet expired
expired_Strict(self, t) ==
    /\ self.kind.tag = "Running"
    /\ self.kind.expiry - t < 0

\* the expiry check of Timer::update
expired(self, t) ==
    /\ self.kind.tag = "Running"
    /\ self.kind.expiry - t <= 0

focus_break(cycles) == IF cycles % 2 = 0 THEN "focus" ELSE "break"

\* Timer::tooltip: the expiry formatted as [hour]:[minute]
tooltip(expiry) ==
    <<"Timer expires at", (expiry \div (60 * Minute)) % 24,
      (expiry \div Minute) % 60>>

\* the payload Timer::update formats; text is the integer that is printed,
\* alt is the pair joined by "-"
render(self, t) ==
    LET fb == focus_break(self.cycles) IN
    CASE self.kind.tag = "Idle" ->
           [text |-> 0, alt |-> <<"standby", fb>>,
            tooltip |-> <<"No timer set">>, class |-> "idle"]
      [] self.kind.tag = "Running" ->
           [text |-> whole_minutes(self.kind.expiry - t) + 1,
            alt |-> <<"running", fb>>,
            tooltip |-> tooltip(self.kind.expiry), class |-> fb]
      [] self.kind.tag = "Paused" ->
           [text |-> whole_minutes(self.kind.time_left) + 1,
            alt |-> <<"paused", fb>>,
            tooltip |-> <<"Timer paused">>, class |-> fb]

\* a variant that counts the cycle of an expired timer and leaves it Running
Timer_update_StaysRunning(self, t) ==
    LET after == IF expired(self, t)
                 THEN Timer(self.cycles + 1, self.kind)
                 ELSE self
    IN [timer |-> after,
        executed |-> IF expired(self, t) THEN self.kind.command ELSE None,
        message |-> render(after, t)]

\* Timer::update at clock reading t: the timer afterwards, the completion
\* command it ran through bash (None when it ran none) and the payload
Timer_update(self, t) ==
    LET after == IF expired(self, t)
                 THEN Timer(self.cycles + 1, Idle)
                 ELSE self
    IN [timer |-> after,
        executed |-> IF expired(self, t) THEN self.kind.command ELSE None,
        message |-> render(after, t)]

(* ------------------------- impl World for Timer ----------------------- *)
\* mutant of togglepause: the time left is captured in whole seconds
togglepause_RoundsToSeconds(self, t) ==
    CASE self.kind.tag = "Running" ->
           [timer |-> Timer(self.cycles,
                            Paused(((self.kind.expiry - t) \div Second) * Second,
                                   self.kind.command)),
            result |-> Ok]
      [] self.kind.tag = "Paused" ->
           [timer |-> Timer(self.cycles,
                            Running(t + self.kind.time_left, self.kind.command)),
            result |-> Ok]
      [] self.kind.tag = "Idle" ->
           [timer |-> self, result |-> NoTimerExisting]

togglepause(self, t) ==
    CASE self.kind.tag = "Running" ->
           [timer |-> Timer(self.cycles,
                            Paused(self.kind.expiry - t, self.kind.command)),
            result |-> Ok]
      [] self.kind.tag = "Paused" ->
           [timer |-> Timer(self.cycles,
                            Running(t + self.kind.time_left, self.kind.command)),
            result |-> Ok]
      [] self.kind.tag = "Idle" ->
           [timer |-> self, result |-> NoTimerExisting]

\* mutant of cancel: the cycles counter is never reset
cancel_KeepsCycles(self) ==
    [timer |-> Timer(self.cycles, Idle), result |-> Ok]

\* mutant of cancel: the cycles counter is reset in every phase
cancel_AlwaysResets(self) ==
    [timer |-> Timer(0, Idle), result |-> Ok]

cancel(self) ==
    [timer |-> Timer(IF self.kind.tag = "Idle" THEN 0 ELSE self.cycles, Idle),
     result |-> Ok]

\* mutant of start: position 7 of the schedule is a short one too
start_ShortAt7(self, command, t) ==
    LET minutes == IF self.cycles % 8 \in {1, 3, 5, 7} THEN 5 ELSE 25 IN
    IF self.kind.tag = "Idle"
    THEN [timer |-> Timer(self.cycles,
                          Running(t + minutes * Minute - Millisecond, command)),
          result |-> Ok]
    ELSE togglepause(self, t)

\* mutant of start: start on an active timer is refused (the stricter variant)
start_Strict(self, command, t) ==
    LET minutes == IF self.cycles % 8 \in {1, 3, 5} THEN 5 ELSE 25 IN
    IF self.kind.tag = "Idle"
    THEN [timer |-> Timer(self.cycles,
                          Running(t + minutes * Minute - Millisecond, command)),
          result |-> Ok]
    ELSE [timer |-> self, result |-> TimerAlreadyExisting]

start(self, command, t) ==
    LET minutes == IF self.cycles % 8 \in {1, 3, 5} THEN 5 ELSE 25 IN
    IF self.kind.tag = "Idle"
    THEN [timer |-> Timer(self.cycles,
                          Running(t + minutes * Minute - Millisecond, command)),
          result |-> Ok]
    ELSE togglepause(self, t)

\* mutant of increase: on Idle it reports success
increase_IdleOk(self, seconds) ==
    CASE self.kind.tag = "Running" ->
           [timer |-> Timer(self.cycles,
                            Running(self.kind.expiry + seconds * Second,
                                    self.kind.command)),
            result |-> Ok]
      [] self.kind.tag = "Paused" ->
           [timer |-> Timer(self.cycles,
                            Paused(self.kind.time_left + seconds * Second,
                                   self.kind.command)),
            result |-> Ok]
      [] self.kind.tag = "Idle" ->
           [timer |-> self, result |-> Ok]

increase(self, seconds) ==
    CASE self.kind.tag = "Running" ->
           [timer |-> Timer(self.cycles,
                            Running(self.kind.expiry + seconds * Second,
                                    self.kind.command)),
            result |-> Ok]
      [] self.kind.tag = "Paused" ->
           [timer |-> Timer(self.cycles,
                            Paused(self.kind.time_left + seconds * Second,
                                   self.kind.command)),
            result |-> Ok]
      [] self.kind.tag = "Idle" ->
           [timer |-> self, result |-> NoTimerExisting]

\* mutant of skip: skipping a Paused timer loses its command
skip_DropsCommand(self, t) ==
    CASE self.kind.tag = "Idle" ->
           [timer |-> self, result |-> NoTimerExisting]
      [] self.kind.tag = "Running" ->
           [timer |-> Timer(self.cycles, Running(t, self.kind.command)),
            result |-> Ok]
      [] self.kind.tag = "Paused" ->
           togglepause(Timer(self.cycles, Paused(0, None)), t)

\* mutant of skip: a Paused timer gets no time left but is not resumed
skip_StaysPaused(self, t) ==
    CASE self.kind.tag = "Idle" ->
           [timer |-> self, result |-> NoTimerExisting]
      [] self.kind.tag = "Running" ->
           [timer |-> Timer(self.cycles, Running(t, self.kind.command)),
            result |-> Ok]
      [] self.kind.tag = "Paused" ->
           [timer |-> Timer(self.cycles, Paused(0, self.kind.command)),
            result |-> Ok]

skip(self, t) ==
    CASE self.kind.tag = "Idle" ->
           [timer |-> self, result |-> NoTimerExisting]
      [] self.kind.tag = "Running" ->
           [timer |-> Timer(self.cycles, Running(t, self.kind.command)),
            result |-> Ok]
      [] self.kind.tag = "Paused" ->
           togglepause(Timer(self.cycles, Paused(0, self.kind.command)), t)

(* ------------------- the requests of the World trait ------------------ *)
Requests ==
    {[verb |-> "cancel"], [verb |-> "togglepause"], [verb |-> "skip"]}
    \cup {[verb |-> "start", command |-> c] : c \in OptCommands}
    \cup {[verb |-> "increase", seconds |-> s] : s \in IncSeconds}

\* handle_with: one remote procedure call applied to the timer
dispatch(self, r, t) ==
    CASE r.verb = "cancel" -> cancel(self)
      [] r.verb = "start" -> start(self, r.command, t)
      [] r.verb = "increase" -> increase(self, r.seconds)
      [] r.verb = "togglepause" -> togglepause(self, t)
      [] r.verb = "skip" -> skip(self, t)

(* ------------------------ ServerState::update ------------------------- *)
\* a variant that removes the last element, as Vec::pop does
swap_remove_Pop(v, i) == SubSeq(v, 1, Len(v) - 1)

\* Vec::swap_remove(i) with i counted from 0: the last element takes the
\* place of the removed one
swap_remove(v, i) ==
    IF i + 1 = Len(v)
    THEN SubSeq(v, 1, Len(v) - 1)
    ELSE [k \in 1..(Len(v) - 1) |-> IF k = i + 1 THEN v[Len(v)] ELSE v[k]]

\* mutant of broadcast: i is incremented after a failed write too
RECURSIVE broadcast_SkipsSwapped(_, _, _, _, _)
broadcast_SkipsSwapped(v, i, writable, blocking, attempts) ==
    IF i >= Len(v)
    THEN [subs |-> v, attempts |-> attempts, blocked |-> FALSE, i |-> i]
    ELSE IF v[i + 1] \in blocking
         THEN [subs |-> v, attempts |-> attempts, blocked |-> TRUE, i |-> i]
         ELSE IF v[i + 1] \in writable
              THEN broadcast_SkipsSwapped(v, i + 1, writable, blocking,
                                          Append(attempts, v[i + 1]))
              ELSE broadcast_SkipsSwapped(swap_remove(v, i), i + 1, writable,
                                          blocking,
                                          Append(attempts, v[i + 1]))

\* the broadcast loop from index i on: writable is the set of subscribers
\* whose write succeeds, blocking the set of those whose write does not
\* return (the peer is connected and has stopped reading); the result is
\* the subscribers kept, the sequence of subscribers whose write returned,
\* and, when a write does not return, blocked = TRUE and the index i of it
RECURSIVE broadcast(_, _, _, _, _)
broadcast(v, i, writable, blocking, attempts) ==
    IF i = Len(v)
    THEN [subs |-> v, attempts |-> attempts, blocked |-> FALSE, i |-> i]
    ELSE IF v[i + 1] \in blocking
         THEN [subs |-> v, attempts |-> attempts, blocked |-> TRUE, i |-> i]
         ELSE IF v[i + 1] \in writable
              THEN broadcast(v, i + 1, writable, blocking,
                             Append(attempts, v[i + 1]))
              ELSE broadcast(swap_remove(v, i), i, writable, blocking,
                             Append(attempts, v[i + 1]))

Range(v) == {v[k] : k \in 1..Len(v)}

(* ------------------------------- state -------------------------------- *)
VARIABLES
    now,          \* the wall clock
    timer,        \* ServerState.timer
    subs,         \* ServerState.subs, a sequence of subscriber ids
    open,         \* the subscribers whose peer has its end open
    admitted,     \* how many subscribers have connected so far
    fresh,        \* the subscriber the acceptor has pushed and that has not
                  \* been written to yet, 0 when there is none
    lock,         \* the owner of the mutex: "none" or a thread
    pc,           \* where each thread is
    sleep_left,   \* what is left of the interval thread's sleep
    request,      \* the request the command loop has dispatched and not
                  \* yet followed by its update
    result,       \* what that request returned
    before,       \* the timer as that request found it
    paused_from,  \* set by a togglepause that pauses a Running timer, kept
                  \* until another operation or the update after the
                  \* togglepause that resumes it: the timer that was
                  \* paused and the clock reading of the pause
    message,      \* the payload formatted by the last update
    executed,     \* the completion command run by the last update
    runs,         \* how often the completion command of the timer started
                  \* last has been run
    written,      \* the subscribers whose write has returned in the
                  \* update under way or just ended, in the order of the
                  \* writes; empty again after the next step
    windex        \* the loop index i of a broadcast whose write does not
                  \* return

vars == <<now, timer, subs, open, admitted, fresh, lock, pc, sleep_left,
          request, result, before, paused_from, message, executed, runs,
          written, windex>>

Threads == {"ticker", "acceptor", "server"}
NoRequest == [verb |-> "none"]
NoPayload == [text |-> 0, alt |-> <<>>, tooltip |-> <<>>, class |-> "none"]
NoPause == <<>>

Init ==
    /\ now = 0
    /\ timer = Timer(0, Idle)
    /\ subs = <<>>
    /\ open = {}
    /\ admitted = 0
    /\ fresh = 0
    /\ lock = "none"
    /\ pc = [ticker |-> "sleep", acceptor |-> "accept", server |-> "accept"]
    /\ sleep_left = INTERVAL
    /\ request = NoRequest
    /\ result = "none"
    /\ before = Timer(0, Idle)
    /\ paused_from = NoPause
    /\ message = NoPayload
    /\ executed = None
    /\ runs = 0
    /\ written = <<>>
    /\ windex = 0

\* a step outside the broadcast loop: the record of the writes of an update
\* that has ended is dropped, that of one waiting in a write is kept
Forget ==
    written' = IF \E th \in Threads : pc[th] = "write" THEN written ELSE <<>>

\* the end of th's scope: the guard is dropped and th goes back to the
\* top of its loop
Leave(th) ==
    /\ lock' = "none"
    /\ pc' = [pc EXCEPT ![th] = IF th = "ticker" THEN "sleep" ELSE "accept"]
    /\ sleep_left' = IF th = "ticker" THEN INTERVAL ELSE sleep_left
    /\ request' = IF th = "server" THEN NoRequest ELSE request
    /\ result' = IF th = "server" THEN "none" ELSE result
    /\ before' = IF th = "server" THEN Timer(0, Idle) ELSE before
    /\ paused_from' = IF th = "server" /\ timer.kind.tag # "Paused"
                      THEN NoPause
                      ELSE paused_from

\* th waits inside ServerState::update, at the place named by label, with
\* the lock held
Wait(th, label) ==
    /\ pc' = [pc EXCEPT ![th] = label]
    /\ UNCHANGED <<lock, sleep_left, request, result, before, paused_from>>

\* the broadcast loop of ServerState::update from index i on: it ends and
\* th leaves, or it stays in a write that does not return.  The peers that
\* have stopped reading, with a full socket buffer, are any of the open ones
\* that have been written to before
Broadcast(th, i, attempts) ==
    \E stalled \in SUBSET (open \ {fresh}) :
    LET b == broadcast(subs, i, open, stalled, attempts)
    IN /\ subs' = b.subs
       /\ fresh' = IF fresh \in Range(b.attempts) THEN 0 ELSE fresh
       /\ written' = b.attempts
       /\ windex' = IF b.blocked THEN b.i ELSE 0
       /\ IF b.blocked THEN Wait(th, "write") ELSE Leave(th)

\* Timer::update returns (after the completion command, when it ran one)
\* and the broadcast loop starts
Rendered(th) ==
    LET u == Timer_update(timer, now)
    IN /\ timer' = u.timer
       /\ message' = u.message
       /\ executed' = u.executed
       /\ Broadcast(th, 0, <<>>)

\* ServerState::update, called by thread th which holds the lock: when the
\* timer has expired and carries a command, Timer::update runs it with
\* Command::output and waits for it to end; otherwise Timer::update
\* returns at once
ServerState_update(th) ==
    /\ lock = th
    /\ IF expired(timer, now) /\ timer.kind.command # None
       THEN /\ executed' = timer.kind.command
            /\ runs' = runs + 1
            /\ Wait(th, "command")
            /\ Forget
            /\ UNCHANGED <<timer, subs, fresh, message, windex>>
       ELSE /\ Rendered(th)
            /\ UNCHANGED runs

\* the completion command ends and Timer::update goes on.  (The clock was
\* read before the command ran; the timer is made Idle whatever the time
\* is now, and the payload of an Idle timer does not depend on the time.)
CommandExit(th) ==
    /\ pc[th] = "command"
    /\ lock = th
    /\ Rendered(th)
    /\ UNCHANGED <<now, open, admitted, runs>>

\* a write that did not return fails because the peer has closed its end,
\* and the broadcast loop goes on (a peer that has stopped reading does
\* not start again, and the stream has no write timeout)
WriteReturns(th) ==
    /\ pc[th] = "write"
    /\ lock = th
    /\ subs[windex + 1] \notin open
    /\ Broadcast(th, windex, written)
    /\ UNCHANGED <<now, timer, open, admitted, message, executed, runs>>

(* ------------------------------ the clock ----------------------------- *)
Advance(d) ==
    /\ now + d <= MaxMinutes * Minute
    /\ now' = now + d
    /\ sleep_left' = IF sleep_left > d THEN sleep_left - d ELSE 0
    /\ Forget
    /\ UNCHANGED <<timer, subs, open, admitted, fresh, lock, pc, request,
                   result, before, paused_from, message, executed, runs,
                   windex>>

(* ------------------------- the interval thread ------------------------ *)
TickerLock ==
    /\ pc.ticker = "sleep"
    /\ sleep_left = 0
    /\ lock = "none"
    /\ lock' = "ticker"
    /\ pc' = [pc EXCEPT !.ticker = "update"]
    /\ Forget
    /\ UNCHANGED <<now, timer, subs, open, admitted, fresh, sleep_left,
                   request, result, before, paused_from, message, executed,
                   runs, windex>>

TickerUpdate ==
    /\ pc.ticker = "update"
    /\ ServerState_update("ticker")
    /\ UNCHANGED <<now, open, admitted>>

(* ----------------------- the subscriber acceptor ---------------------- *)
\* a variant that pushes the stream before it takes the lock
AcceptorAdmit_Unlocked ==
    /\ pc.acceptor = "accept"
    /\ admitted < MaxSubs
    /\ admitted' = admitted + 1
    /\ fresh' = admitted + 1
    /\ open' = open \cup {admitted + 1}
    /\ subs' = Append(subs, admitted + 1)
    /\ pc' = [pc EXCEPT !.acceptor = "locking"]
    /\ UNCHANGED <<now, timer, lock, sleep_left, request, result, before,
                   paused_from, message, executed, runs, written, windex>>

\* Ok(stream): lock, shutdown(Read) and push
AcceptorAdmit ==
    /\ pc.acceptor = "accept"
    /\ admitted < MaxSubs
    /\ lock = "none"
    /\ lock' = "acceptor"
    /\ admitted' = admitted + 1
    /\ fresh' = admitted + 1
    /\ open' = open \cup {admitted + 1}
    /\ subs' = Append(subs, admitted + 1)
    /\ pc' = [pc EXCEPT !.acceptor = "update"]
    /\ Forget
    /\ UNCHANGED <<now, timer, sleep_left, request, result, before,
                   paused_from, message, executed, runs, windex>>

AcceptorUpdate ==
    /\ pc.acceptor = "update"
    /\ ServerState_update("acceptor")
    /\ UNCHANGED <<now, open, admitted>>

\* the peer of subscriber s closes its end
SubscriberDisconnect(s) ==
    /\ s \in open
    /\ open' = open \ {s}
    /\ Forget
    /\ UNCHANGED <<now, timer, subs, admitted, fresh, lock, pc, sleep_left,
                   request, result, before, paused_from, message, executed,
                   runs, windex>>

(* --------------------------- the command loop ------------------------- *)
ServerAccept ==
    /\ pc.server = "accept"
    /\ lock = "none"
    /\ lock' = "server"
    /\ pc' = [pc EXCEPT !.server = "handle"]
    /\ Forget
    /\ UNCHANGED <<now, timer, subs, open, admitted, fresh, sleep_left,
                   request, result, before, paused_from, message, executed,
                   runs, windex>>

\* the requests the model lets a client send in the current state
Allowed(r) ==
    /\ r.verb = "start" /\ timer.kind.tag = "Idle" => timer.cycles < MaxCycles
    /\ r.verb = "increase" /\ timer.kind.tag = "Running" =>
         /\ timer.kind.expiry + r.seconds * Second - now <= MaxSpanMinutes * Minute
         /\ now - (timer.kind.expiry + r.seconds * Second) <= MaxSpanMinutes * Minute
    /\ r.verb = "increase" /\ timer.kind.tag = "Paused" =>
         /\ timer.kind.time_left + r.seconds * Second <= MaxSpanMinutes * Minute
         /\ -(timer.kind.time_left + r.seconds * Second) <= MaxSpanMinutes * Minute

ServerHandle(r) ==
    LET d == dispatch(timer, r, now) IN
    /\ pc.server = "handle"
    /\ lock = "server"
    /\ Allowed(r)
    /\ request' = r
    /\ before' = timer
    /\ timer' = d.timer
    /\ result' = d.result
    /\ paused_from' =
         IF r.verb = "togglepause" /\ timer.kind.tag = "Running"
         THEN [cycles |-> timer.cycles, expiry |-> timer.kind.expiry,
               command |-> timer.kind.command, at |-> now]
         ELSE IF r.verb = "togglepause" /\ timer.kind.tag = "Paused"
              THEN paused_from
              ELSE NoPause
    /\ runs' = IF r.verb = "start" /\ timer.kind.tag = "Idle" THEN 0 ELSE runs
    /\ pc' = [pc EXCEPT !.server = "update"]
    /\ Forget
    /\ UNCHANGED <<now, subs, open, admitted, fresh, lock, sleep_left,
                   message, executed, windex>>

\* handle_with returns an error and unwrap panics: the guard is dropped
\* while panicking, which poisons the mutex, and the panic of the main
\* thread ends the process, which closes every stream and loses what the
\* last update recorded.  The error comes before the call of the World
\* method (pc "handle": the request is malformed or names no verb of
\* World) or after it (pc "update": the response cannot be written
\* because the client has closed its end)
ServerPanic ==
    /\ pc.server \in {"handle", "update"}
    /\ lock = "server"
    /\ lock' = "poisoned"
    /\ pc' = [th \in Threads |-> "exited"]
    /\ subs' = <<>>
    /\ open' = {}
    /\ paused_from' = NoPause
    /\ message' = NoPayload
    /\ executed' = None
    /\ runs' = 0
    /\ written' = <<>>
    /\ request' = NoRequest
    /\ result' = "none"
    /\ before' = Timer(0, Idle)
    /\ UNCHANGED <<now, timer, admitted, fresh, sleep_left, windex>>

ServerUpdate ==
    /\ pc.server = "update"
    /\ ServerState_update("server")
    /\ UNCHANGED <<now, open, admitted>>

Next ==
    \/ \E d \in Deltas : Advance(d)
    \/ TickerLock
    \/ TickerUpdate
    \/ AcceptorAdmit
    \/ AcceptorUpdate
    \/ \E s \in 1..MaxSubs : SubscriberDisconnect(s)
    \/ ServerAccept
    \/ \E r \in Requests : ServerHandle(r)
    \/ ServerPanic
    \/ ServerUpdate
    \/ \E th \in Threads : CommandExit(th)
    \/ \E th \in Threads : WriteReturns(th)

Spec == Init /\ [][Next]_vars


(* ------------------------------ the steps ----------------------------- *)
\* the command loop dispatches a request with the given verb
Handles(verb) ==
    /\ pc.server = "handle"
    /\ pc'.server = "update"
    /\ request'.verb = verb

\* Timer::update returns in thread th: at once, or when the completion
\* command it ran has ended
TimerUpdated(th) ==
    \/ pc[th] = "update" /\ pc'[th] \notin {"update", "command", "exited"}
    \/ pc[th] = "command" /\ pc'[th] # "command"

\* th goes on in the broadcast loop: from its start when Timer::update
\* returns, or from a write that has now returned
Broadcasts(th) ==
    \/ TimerUpdated(th)
    \/ pc[th] = "write" /\ (pc'[th] # "write" \/ written' # written)

\* the subscribers whose write returns in the step of th
Written(th) ==
    LET old == IF pc[th] = "write" THEN Len(written) ELSE 0
    IN {written'[k] : k \in (old + 1)..Len(written')}

\* some thread runs ServerState::update and its Timer::update returns
Updates == \E th \in Threads : TimerUpdated(th)

Active(kind) == kind.tag \in {"Running", "Paused"}

(* ------------------------------- claims ------------------------------- *)

\* C1: on an Idle timer each of increase (any delta), skip and togglepause
\* returns NoTimerExisting and leaves the phase and the cycles unchanged
C1_IdleOpsFail ==
    [][(/\ \/ Handles("increase")
           \/ Handles("skip")
           \/ Handles("togglepause")
        /\ timer.kind.tag = "Idle")
       => /\ result' = NoTimerExisting
          /\ timer'.kind = Idle
          /\ timer'.cycles = timer.cycles]_vars

\* C1 witness: skip was refused on an Idle timer that has completed a cycle
C1_Witness ==
    /\ pc.server = "update"
    /\ request.verb = "skip"
    /\ before.kind.tag = "Idle"
    /\ before.cycles = 1
    /\ result = NoTimerExisting
    /\ timer = before

\* the minutes of the timer started at each position of cycles mod 8
ScheduleMinutes == <<25, 5, 25, 5, 25, 5, 25, 25>>

\* C2: start on Idle succeeds and gives Running with the given command and
\* expiry = now + M minutes - 1 ms, M = 5 at positions 1, 3, 5 of cycles
\* mod 8 and 25 elsewhere; cycles is unchanged
C2_StartFromIdle ==
    [][(Handles("start") /\ timer.kind.tag = "Idle")
       => /\ result' = Ok
          /\ timer'.kind.tag = "Running"
          /\ timer'.kind.command = request'.command
          /\ timer'.kind.expiry =
               now + ScheduleMinutes[(timer.cycles % 8) + 1] * Minute
                   - Millisecond
          /\ timer'.cycles = timer.cycles]_vars

\* C2 witness: a timer started at position 7 runs for 25 minutes
C2_Witness ==
    /\ pc.server = "update"
    /\ request.verb = "start"
    /\ before.kind.tag = "Idle"
    /\ before.cycles = 7
    /\ result = Ok
    /\ timer.kind.tag = "Running"
    /\ timer.kind.expiry = now + 25 * Minute - Millisecond

\* C3: start on a Running or Paused timer does what togglepause does
\* (Running becomes Paused, Paused becomes Running) and succeeds; no
\* operation ever returns TimerAlreadyExisting
C3_StartTogglesActive ==
    [][/\ (Handles("start") /\ Active(timer.kind))
          => /\ result' = Ok
             /\ timer' = togglepause(timer, now).timer
             /\ timer.kind.tag = "Running" => timer'.kind.tag = "Paused"
             /\ timer.kind.tag = "Paused" => timer'.kind.tag = "Running"
       /\ (pc.server = "handle" /\ pc'.server = "update")
          => result' # TimerAlreadyExisting]_vars

\* C3 witness: start resumed a Paused timer
C3_Witness ==
    /\ pc.server = "update"
    /\ request.verb = "start"
    /\ before.kind.tag = "Paused"
    /\ result = Ok
    /\ timer.kind.tag = "Running"

\* C4: togglepause twice in a row from Running with expiry E and command c
\* gives Running with command c, the same cycles and expiry E + d, d the
\* time that passed while paused; with d = 0 the expiry is exactly E
C4_TogglePauseTwice ==
    [][(/\ Handles("togglepause")
        /\ timer.kind.tag = "Paused"
        /\ paused_from # NoPause)
       => /\ result' = Ok
          /\ timer'.kind.tag = "Running"
          /\ timer'.kind.expiry = paused_from.expiry + (now - paused_from.at)
          /\ now = paused_from.at => timer'.kind.expiry = paused_from.expiry
          /\ timer'.kind.command = paused_from.command
          /\ timer'.cycles = paused_from.cycles]_vars

\* C4 witness: a timer paused and resumed by two togglepause calls five
\* minutes apart
C4_Witness ==
    /\ pc.server = "update"
    /\ request.verb = "togglepause"
    /\ before.kind.tag = "Paused"
    /\ paused_from # NoPause
    /\ now = paused_from.at + 5 * Minute
    /\ timer.kind.tag = "Running"
    /\ timer.kind.expiry = paused_from.expiry + 5 * Minute

\* C5: while the timer stays active its command never changes, and it is
\* the command given to the start that left Idle
C5_CommandCarried ==
    [][/\ (Active(timer.kind) /\ Active(timer'.kind))
          => timer'.kind.command = timer.kind.command
       /\ (Handles("start") /\ timer.kind.tag = "Idle")
          => timer'.kind.command = request'.command]_vars

\* C5 witness: skip on a Paused timer that carries a command
C5_Witness ==
    /\ pc.server = "update"
    /\ request.verb = "skip"
    /\ before.kind.tag = "Paused"
    /\ before.kind.command = Some("notify")
    /\ timer.kind.tag = "Running"
    /\ timer.kind.command = Some("notify")

\* C6: the update step makes a Running timer with expiry <= now Idle and
\* adds 1 to cycles; in every other case it leaves the timer as it is
C6_UpdateExpires ==
    [][Updates
       => IF timer.kind.tag = "Running" /\ timer.kind.expiry <= now
          THEN timer' = Timer(timer.cycles + 1, Idle)
          ELSE timer' = timer]_vars

\* C6 witness: the last update expired a Running timer (it ran its command)
C6_Witness ==
    /\ executed = Some("notify")
    /\ timer.kind.tag = "Idle"
    /\ timer.cycles = 2
    /\ lock = "none"

\* floor of d in minutes
FloorMinutes(d) == d \div Minute

\* C7 (as claimed): the payload of every update has text 0 for Idle and
\* floor(time left in minutes) + 1 for Running and Paused, the tag standby /
\* running / paused, class idle for Idle and focus / break by the parity of
\* cycles otherwise; right after start from Idle at cycles 0 it shows 25,
\* running, focus
C7_RenderFloor ==
    [][Updates
       => /\ message'.text =
               CASE timer'.kind.tag = "Idle" -> 0
                 [] timer'.kind.tag = "Running" ->
                      FloorMinutes(timer'.kind.expiry - now) + 1
                 [] timer'.kind.tag = "Paused" ->
                      FloorMinutes(timer'.kind.time_left) + 1
          /\ message'.alt[1] =
               CASE timer'.kind.tag = "Idle" -> "standby"
                 [] timer'.kind.tag = "Running" -> "running"
                 [] timer'.kind.tag = "Paused" -> "paused"
          /\ message'.class =
               IF timer'.kind.tag = "Idle" THEN "idle"
               ELSE IF timer'.cycles % 2 = 0 THEN "focus" ELSE "break"
          /\ (/\ timer'.cycles = 0
              /\ timer'.kind.tag = "Running"
              /\ timer'.kind.expiry = now + 25 * Minute - Millisecond)
             => /\ message'.text = 25
                /\ message'.alt = <<"running", "focus">>
                /\ message'.class = "focus"]_vars

\* C8 (as claimed): every payload broadcast to a subscriber has a text >= 0
C8_TextNonNegative ==
    [][(Updates /\ Len(subs') > 0) => message'.text >= 0]_vars

\* C9: skip on a Running or Paused timer succeeds and leaves it Running
\* with expiry = now and its command; the update that follows makes the
\* timer Idle with cycles one higher
C9_SkipExpires ==
    [][/\ (Handles("skip") /\ Active(timer.kind))
          => /\ result' = Ok
             /\ timer' = Timer(timer.cycles,
                               Running(now, timer.kind.command))
       /\ (/\ TimerUpdated("server")
           /\ request.verb = "skip"
           /\ Active(before.kind))
          => timer' = Timer(before.cycles + 1, Idle)]_vars

\* C9 witness: skip on a timer Paused with 5 minutes - 1 ms left
C9_Witness ==
    /\ pc.server = "update"
    /\ request.verb = "skip"
    /\ before.kind.tag = "Paused"
    /\ before.kind.time_left = 5 * Minute - Millisecond
    /\ result = Ok
    /\ timer.kind.tag = "Running"
    /\ timer.kind.expiry = now

\* C10 (as claimed): cancel succeeds and leaves the timer Idle; it adds one
\* to cycles when called on Idle and leaves cycles unchanged otherwise
C10_CancelIncrements ==
    [][Handles("cancel")
       => /\ result' = Ok
          /\ timer'.kind = Idle
          /\ timer'.cycles = IF timer.kind.tag = "Idle"
                             THEN timer.cycles + 1
                             ELSE timer.cycles]_vars

\* C10 (amended): cancel succeeds and leaves the timer Idle; it resets
\* cycles to 0 when called on Idle and leaves cycles unchanged otherwise
C10_CancelResets ==
    [][Handles("cancel")
       => /\ result' = Ok
          /\ timer'.kind = Idle
          /\ timer'.cycles = IF timer.kind.tag = "Idle"
                             THEN 0
                             ELSE timer.cycles]_vars

\* C10 witness: cancel on an Idle timer after three completed cycles
C10_Witness ==
    /\ pc.server = "update"
    /\ request.verb = "cancel"
    /\ before.kind.tag = "Idle"
    /\ before.cycles = 3
    /\ result = Ok
    /\ timer = Timer(0, Idle)

\* C11: from the push of a new subscriber until the write of its first
\* payload returns, the acceptor holds the lock, the interval thread stays
\* in its sleep and the command loop in its accept, and the timer changes
\* only by the acceptor's own Timer::update; that update formats the
\* payload from the timer it leaves, and the write of it to the new
\* subscriber keeps the subscriber registered if its peer is open
C11_FreshSubscriberServed ==
    [][/\ fresh' # 0 =>
            /\ lock' = "acceptor"
            /\ pc'.ticker = "sleep"
            /\ pc'.server = "accept"
       /\ fresh # 0 =>
            /\ lock = "acceptor"
            /\ timer' # timer => TimerUpdated("acceptor")
            /\ TimerUpdated("acceptor") => message' = render(timer', now)
            /\ ~TimerUpdated("acceptor") => message' = message
       /\ fresh # 0 /\ fresh' = 0 =>
            /\ pc.acceptor \in {"update", "command", "write"}
            /\ pc.acceptor = "update" => TimerUpdated("acceptor")
            /\ fresh \in open => fresh \in Range(subs')]_vars

\* C11 witness: a second subscriber has been registered and written to while
\* a timer is Running and the interval thread, whose sleep is over, waited
C11_Witness ==
    /\ lock = "none"
    /\ fresh = 0
    /\ admitted = 2
    /\ subs = <<1, 2>>
    /\ pc.ticker = "sleep"
    /\ sleep_left = 0
    /\ timer.kind.tag = "Running"
    /\ message = render(timer, now)

\* C12: of the subscribers written to in an update, those whose write
\* failed (the peer had closed) are no longer registered and those whose
\* write succeeded still are; the ones not written to stay registered;
\* only registered subscribers are written to, and a subscriber that is
\* no longer registered is never registered again
C12_FailedDropped ==
    [][/\ \A th \in Threads : Broadcasts(th) =>
            /\ Written(th) \subseteq Range(subs)
            /\ \A s \in Written(th) : s \in Range(subs') <=> s \in open
            /\ Range(subs) \ Written(th) \subseteq Range(subs')
       /\ \A s \in 1..admitted : s \notin Range(subs) => s \notin Range(subs')]_vars

\* C12 witness: an update found the peer of subscriber 1 closed and wrote
\* to subscriber 2; only subscriber 2 is registered after it
C12_Witness ==
    /\ lock = "none"
    /\ written = <<1, 2>>
    /\ subs = <<2>>
    /\ open = {2}

\* C13: the command loop leaves the place between the dispatch of a request
\* and its update only by running update(), whatever the request returned;
\* while it holds the lock the interval thread and the acceptor do not
\* move; and its update formats the payload from the timer and writes it
\* to every registered subscriber
C13_RequestBroadcast ==
    [][/\ pc.server = "update" /\ pc'.server # "update" =>
            /\ TimerUpdated("server")
            /\ message' = render(timer', now)
       /\ lock = "server" /\ lock' = "server" =>
            /\ pc'.ticker = pc.ticker
            /\ pc'.acceptor = pc.acceptor
       /\ lock = "server" /\ lock' = "none" =>
            /\ pc'.server = "accept"
            /\ Range(subs) \subseteq Range(written')]_vars

\* C14: when the command loop meets a request it cannot dispatch (it
\* leaves "handle" without a dispatch), the timer and the subscribers are
\* unchanged, the command loop is back at its accept, the lock is free and
\* the other two threads are where they were
C14_MalformedHandledLocally ==
    [][pc.server = "handle" /\ pc'.server \notin {"handle", "update"} =>
          /\ timer' = timer
          /\ subs' = subs
          /\ pc'.server = "accept"
          /\ lock' = "none"
          /\ pc'.ticker = pc.ticker
          /\ pc'.acceptor = pc.acceptor]_vars

\* C15: a thread that waits in a write of the broadcast can always go on by
\* itself, without the peer doing anything: the write is given up and the
\* subscriber dropped, so the lock does not stay held for a subscriber
\* that has stopped reading
C15_StalledWriteGivenUp ==
    \A th \in Threads : pc[th] = "write" => ENABLED WriteReturns(th)

\* a completion command is started in this step
CommandStarts == \E th \in Threads : pc[th] = "update" /\ pc'[th] = "command"

\* a completion command ends in this step
CommandEnds == \E th \in Threads : pc[th] = "command" /\ pc'[th] # "command"

\* C16: the completion command of a timer is run at most once; it is run
\* only by an update that finds the timer Running with expiry <= now and a
\* command, and that update leaves the timer Idle with one cycle more;
\* the dispatch of cancel runs nothing, and an update that finds the timer
\* Paused or Idle runs nothing
C16_CommandOnceOnExpiry ==
    [][/\ runs' <= 1
       /\ runs' > runs =>
            /\ CommandStarts
            /\ timer.kind.tag = "Running"
            /\ timer.kind.expiry <= now
            /\ timer.kind.command # None
            /\ executed' = timer.kind.command
       /\ CommandStarts => runs' = runs + 1
       /\ CommandEnds =>
            /\ timer.kind.tag = "Running"
            /\ timer' = Timer(timer.cycles + 1, Idle)
            /\ executed' = timer.kind.command
       /\ executed' # None => CommandStarts \/ CommandEnds \/ executed' = executed
       /\ Handles("cancel") => runs' = runs /\ executed' = executed
       /\ Updates /\ timer.kind.tag \in {"Paused", "Idle"} =>
            /\ executed' = None
            /\ runs' = runs]_vars

\* C16 witness: two timers in a row have been ended by skip without the
\* clock moving; the command of the second has run once and it is Idle
C16_Witness ==
    /\ runs = 1
    /\ executed = Some("notify")
    /\ timer = Timer(2, Idle)
    /\ lock = "none"
    /\ now = 0

\* C17: a thread whose Timer::update waits for the completion command to
\* end does not hold the lock meanwhile
C17_CommandOutsideLock ==
    \A th \in Threads : pc[th] = "command" => lock # th

\* C18: in every step cycles stays the same, or grows by exactly 1 in an
\* update that finds the timer Running with expiry <= now, or becomes 0 in
\* the dispatch of cancel on an Idle timer; the dispatch of start,
\* togglepause, increase or skip, and of cancel on a Running or Paused
\* timer, leaves cycles unchanged; cycles is never negative
C18_CyclesSteps ==
    [][/\ \/ timer'.cycles = timer.cycles
          \/ /\ timer'.cycles = timer.cycles + 1
             /\ Updates
             /\ timer.kind.tag = "Running"
             /\ timer.kind.expiry <= now
          \/ /\ timer'.cycles = 0
             /\ Handles("cancel")
             /\ timer.kind.tag = "Idle"
       /\ timer'.cycles >= 0
       /\ \A verb \in {"start", "togglepause", "increase", "skip"} :
            Handles(verb) => timer'.cycles = timer.cycles
       /\ Handles("cancel") /\ Active(timer.kind) =>
            timer'.cycles = timer.cycles]_vars

\* C18 witness: cancel on a Running timer after one completed cycle has
\* left the counter at 1
C18_Witness ==
    /\ pc.server = "update"
    /\ request.verb = "cancel"
    /\ before.kind.tag = "Running"
    /\ before.cycles = 1
    /\ timer = Timer(1, Idle)

\* C19: the dispatch of increase on a Paused timer adds exactly the given
\* seconds to time_left and changes nothing else of the timer; and an
\* update of the interval thread that finds the timer Paused with a
\* negative time_left leaves it Idle with one cycle more
C19_PausedDecreaseElapses ==
    [][/\ Handles("increase") /\ timer.kind.tag = "Paused" =>
            timer' = Timer(timer.cycles,
                           Paused(timer.kind.time_left
                                    + request'.seconds * Second,
                                  timer.kind.command))
       /\ (/\ TimerUpdated("ticker")
           /\ timer.kind.tag = "Paused"
           /\ timer.kind.time_left < 0) =>
            timer' = Timer(timer.cycles + 1, Idle)]_vars

\* the subscribers the broadcast loop of th has still to write to
Pending(th) ==
    LET i == IF pc[th] = "write" THEN windex ELSE 0
    IN {subs[k] : k \in (i + 1)..Len(subs)}

\* C20: when the broadcast loop of an update ends, every subscriber that
\* was registered at its start has been written to exactly once, whichever
\* of the writes failed; when it stops in a write that does not return,
\* the subscribers written to so far have been written to once and the
\* others are the ones the loop has still to write to
C20_EachWrittenOnce ==
    [][\A th \in Threads : Broadcasts(th) =>
          LET old == IF pc[th] = "write" THEN written ELSE <<>>
          IN /\ SubSeq(written', 1, Len(old)) = old
             /\ Cardinality(Range(written')) = Len(written')
             /\ Len(written') = Len(old) + Cardinality(Written(th))
             /\ pc'[th] # "write" => Written(th) = Pending(th)
             /\ pc'[th] = "write" =>
                  /\ Written(th) \subseteq Pending(th)
                  /\ Pending(th) \ Written(th) = Pending(th)']_vars

\* C20 witness: an update found the peers of both subscribers closed: the
\* first was removed and the second swapped into its place, written to and
\* removed as well
C20_Witness ==
    /\ lock = "none"
    /\ admitted = 2
    /\ written = <<1, 2>>
    /\ subs = <<>>

====
